---- MODULE Spec2Model ----
(***************************************************************************)
(* Model of resumeanalyzer.py: the text normalizer clean_text, the         *)
(* question extractor extract_questions_from_analysis and the per-file     *)
(* processing loop of main.                                                *)
(*                                                                         *)
(* A Python str is modelled as a sequence of one-character strings; the    *)
(* bullet character U+2022 is written "BULLET".                            *)
(***************************************************************************)
EXTENDS Integers, Sequences, FiniteSets, TLC

VARIABLES
    \* extract_questions_from_analysis
    analysis_text, lines, line_no, in_question_section, questions, result, xpc,
    \* clean_text
    text, cleaned, recleaned, cpc,
    \* main
    uploaded_files, session_state, input, idx, shown, llm_calls, docx_made, mpc

vars == <<analysis_text, lines, line_no, in_question_section, questions, result, xpc,
          text, cleaned, recleaned, cpc,
          uploaded_files, session_state, input, idx, shown, llm_calls, docx_made, mpc>>

xvars == <<analysis_text, lines, line_no, in_question_section, questions, result, xpc>>
cvars == <<text, cleaned, recleaned, cpc>>
mvars == <<uploaded_files, session_state, input, idx, shown, llm_calls, docx_made, mpc>>

----------------------------------------------------------------------------
(* Bounds of the model *)

\* longest input of clean_text, in characters
MaxLen == 7
\* most lines of an analysis text drawn from LinePool
MaxLines == 4
\* most lines after the header in an analysis text drawn from QuestionPool
MaxQuestionLines == 7
\* most uploaded files
MaxFiles == 3

----------------------------------------------------------------------------
(* The resting state of each part, for the specifications of the others *)

XIdle ==
    /\ analysis_text = <<>> /\ lines = <<>> /\ line_no = 0
    /\ in_question_section = FALSE /\ questions = <<>> /\ result = <<>>
    /\ xpc = "idle"

CIdle == text = <<>> /\ cleaned = <<>> /\ recleaned = <<>> /\ cpc = "idle"

NoDocx == [called |-> FALSE, raised |-> FALSE, bytes |-> <<>>]

NoClick == <<"none", 0>>

NoInput ==
    [click |-> NoClick, llm_raises |-> FALSE, save_raises |-> FALSE,
     has_answers |-> FALSE]

MIdle ==
    /\ uploaded_files = <<>> /\ session_state = {} /\ input = NoInput /\ idx = 0
    /\ shown = <<>> /\ llm_calls = <<>> /\ docx_made = NoDocx /\ mpc = "idle"

----------------------------------------------------------------------------
(* Python str primitives *)

\* str.isspace() on the characters the model uses
Whitespace == {" ", "\t", "\n", "\r"}

Digits == {"0", "1", "2", "3", "4", "5", "6", "7", "8", "9"}

UpperCase == <<"A","B","C","D","E","F","G","H","I","J","K","L","M","N","O","P","Q","R","S","T","U","V","W","X","Y","Z">>
LowerCase == <<"a","b","c","d","e","f","g","h","i","j","k","l","m","n","o","p","q","r","s","t","u","v","w","x","y","z">>

lower_char(c) ==
    IF \E k \in 1..Len(UpperCase) : UpperCase[k] = c
    THEN LowerCase[CHOOSE k \in 1..Len(UpperCase) : UpperCase[k] = c]
    ELSE c

\* str.lower()
lower(s) == [k \in 1..Len(s) |-> lower_char(s[k])]

\* str.strip()
strip(s) ==
    LET keep == {k \in 1..Len(s) : s[k] \notin Whitespace}
    IN  IF keep = {} THEN <<>>
        ELSE SubSeq(s, CHOOSE a \in keep : \A b \in keep : a <= b,
                       CHOOSE a \in keep : \A b \in keep : a >= b)

\* sub in s
contains(s, sub) ==
    \E i \in 1..(Len(s) - Len(sub) + 1) :
        \A k \in 1..Len(sub) : s[i + k - 1] = sub[k]

\* str.split(sep) for a one-character separator: the fields between the
\* separators, one more than there are separators
split(s, sep) ==
    LET at == {i \in 1..Len(s) : s[i] = sep}
        \* the position of the k-th separator; 0 and Len(s) + 1 bound the string
        nth(k) == IF k = 0 THEN 0
                  ELSE IF k > Cardinality(at) THEN Len(s) + 1
                  ELSE CHOOSE i \in at : Cardinality({j \in at : j < i}) = k - 1
    IN  [k \in 1..(Cardinality(at) + 1) |-> SubSeq(s, nth(k - 1) + 1, nth(k) - 1)]

RECURSIVE words_from(_, _, _)
words_from(s, i, word) ==
    IF i > Len(s) THEN (IF word = <<>> THEN <<>> ELSE <<word>>)
    ELSE IF s[i] \in Whitespace
         THEN (IF word = <<>> THEN <<>> ELSE <<word>>) \o words_from(s, i + 1, <<>>)
    ELSE words_from(s, i + 1, Append(word, s[i]))

\* str.split() with no separator: the whitespace-separated words
split_words(s) == words_from(s, 1, <<>>)

RECURSIVE join(_, _)
\* sep.join(parts) for a one-character separator
join(parts, sep) ==
    IF parts = <<>> THEN <<>>
    ELSE IF Len(parts) = 1 THEN parts[1]
    ELSE parts[1] \o <<sep>> \o join(Tail(parts), sep)

\* s[:n]
take(s, n) == SubSeq(s, 1, IF Len(s) < n THEN Len(s) ELSE n)

\* all sequences over S of length lo..hi
SeqsOf(S, lo, hi) == UNION {[1..n -> S] : n \in lo..hi}

----------------------------------------------------------------------------
(* clean_text *)

RECURSIVE sub_blank_lines_lazy_from(_, _)
sub_blank_lines_lazy_from(t, i) ==
    IF i > Len(t) THEN <<>>
    ELSE LET ends == {j \in (i + 1)..Len(t) :
                        /\ t[j] = "\n"
                        /\ \A k \in (i + 1)..(j - 1) : t[k] \in Whitespace}
         IN  IF t[i] = "\n" /\ ends # {}
             THEN LET first == CHOOSE j \in ends : \A k \in ends : j <= k
                  IN  <<"\n", "\n">> \o sub_blank_lines_lazy_from(t, first + 1)
             ELSE <<t[i]>> \o sub_blank_lines_lazy_from(t, i + 1)

\* a faulty variant of sub_blank_lines: the pattern \n\s*?\n, which stops at the first newline
sub_blank_lines_lazy(t) == sub_blank_lines_lazy_from(t, 1)

RECURSIVE sub_blank_lines_from(_, _)
sub_blank_lines_from(t, i) ==
    IF i > Len(t) THEN <<>>
    ELSE LET ends == {j \in (i + 1)..Len(t) :
                        /\ t[j] = "\n"
                        /\ \A k \in (i + 1)..(j - 1) : t[k] \in Whitespace}
         IN  IF t[i] = "\n" /\ ends # {}
             THEN LET last == CHOOSE j \in ends : \A k \in ends : k <= j
                  IN  <<"\n", "\n">> \o sub_blank_lines_from(t, last + 1)
             ELSE <<t[i]>> \o sub_blank_lines_from(t, i + 1)

\* re.sub(r'\n\s*\n', '\n\n', t): leftmost non-overlapping matches, \s* greedy
sub_blank_lines(t) == sub_blank_lines_from(t, 1)

RECURSIVE sub_space_pairs_from(_, _)
sub_space_pairs_from(t, i) ==
    IF i > Len(t) THEN <<>>
    ELSE IF i < Len(t) /\ t[i] = " " /\ t[i + 1] = " "
         THEN <<" ">> \o sub_space_pairs_from(t, i + 2)
    ELSE <<t[i]>> \o sub_space_pairs_from(t, i + 1)

\* a faulty variant of sub_spaces: t.replace('  ', ' '), which halves a run of spaces
sub_space_pairs(t) == sub_space_pairs_from(t, 1)

\* a faulty variant of sub_spaces: re.sub(r'\s+', ' ', t), which collapses every whitespace run
sub_whitespace(t) ==
    LET RECURSIVE pick(_)
        pick(k) == IF k > Len(t) THEN <<>>
                   ELSE (IF t[k] \notin Whitespace THEN <<t[k]>>
                         ELSE IF k > 1 /\ t[k - 1] \in Whitespace THEN <<>>
                         ELSE <<" ">>) \o pick(k + 1)
    IN  pick(1)

\* re.sub(r' +', ' ', t)
sub_spaces(t) ==
    LET keep == {k \in 1..Len(t) : ~(t[k] = " " /\ k > 1 /\ t[k - 1] = " ")}
        RECURSIVE pick(_)
        pick(k) == IF k > Len(t) THEN <<>>
                   ELSE (IF k \in keep THEN <<t[k]>> ELSE <<>>) \o pick(k + 1)
    IN  pick(1)

clean_text(t) == strip(sub_spaces(sub_blank_lines(t)))

CleanAlphabet == {"a", " ", "\n", "\t", "\r"}

CleanInputs == SeqsOf(CleanAlphabet, 0, MaxLen)

CInit ==
    /\ text \in CleanInputs
    /\ cleaned = <<>> /\ recleaned = <<>> /\ cpc = "input"

ApplyClean ==
    /\ cpc = "input"
    /\ cleaned' = clean_text(text)
    /\ cpc' = "cleaned"
    /\ UNCHANGED <<text, recleaned>>
    /\ UNCHANGED <<xvars, mvars>>

ReapplyClean ==
    /\ cpc = "cleaned"
    /\ recleaned' = clean_text(cleaned)
    /\ cpc' = "recleaned"
    /\ UNCHANGED <<text, cleaned>>
    /\ UNCHANGED <<xvars, mvars>>

InitClean == CInit /\ XIdle /\ MIdle
NextClean == ApplyClean \/ ReapplyClean
SpecClean == InitClean /\ [][NextClean]_vars

----------------------------------------------------------------------------
(* extract_questions_from_analysis *)

question_indicators ==
    << <<"m","i","s","s","i","n","g"," ","i","n","f","o","r","m","a","t","i","o","n">>,
       <<"i","n","f","o","r","m","a","t","i","o","n"," ","n","e","e","d","e","d">>,
       <<"q","u","e","s","t","i","o","n","s">>,
       <<"a","d","d","i","t","i","o","n","a","l"," ","d","e","t","a","i","l","s">>,
       <<"c","l","a","r","i","f","i","c","a","t","i","o","n"," ","n","e","e","d","e","d">> >>

\* any(indicator in line_lower for indicator in question_indicators)
has_indicator(line_lower) ==
    \E k \in 1..Len(question_indicators) : contains(line_lower, question_indicators[k])

\* line.startswith((' ', '-', BULLET, '1', '2', '3', '4', '5'))
startswith_list_prefix(line) ==
    /\ line # <<>>
    /\ line[1] \in {" ", "-", "BULLET", "1", "2", "3", "4", "5"}

\* fewer words than this before the colon make a line a section label
LabelWords == 4

\* a faulty variant of is_next_section: only a one-word label ends the section
is_next_section_one_word(line) ==
    /\ strip(line) # <<>>
    /\ ~startswith_list_prefix(line)
    /\ contains(line, <<":">>)
    /\ Len(split_words(split(line, ":")[1])) < 2

\* the conditions on the line under "Stop at next major section"
is_next_section(line) ==
    /\ strip(line) # <<>>
    /\ ~startswith_list_prefix(line)
    /\ contains(line, <<":">>)
    /\ Len(split_words(split(line, ":")[1])) < LabelWords

RECURSIVE drop_while(_, _)
drop_while(s, class) ==
    IF s # <<>> /\ s[1] \in class THEN drop_while(Tail(s), class) ELSE s

\* a faulty variant of re_sub_leading: the pattern ^[-BULLET\.\s]+, without the digits
re_sub_leading_no_digits(line) ==
    drop_while(line, {"-", "BULLET", "."} \cup Whitespace)

\* re.sub(r'^[-BULLET\d\.\s]+', '', line)
re_sub_leading(line) ==
    drop_while(line, {"-", "BULLET", "."} \cup Digits \cup Whitespace)

\* a cleaned line longer than this is a question
MinQuestionLen == 10

\* a faulty variant of scan_line: the indicator line is not skipped with continue
scan_line_no_continue(in_section, qs, line) ==
    LET line_lower == strip(lower(line))
        entered    == in_section \/ has_indicator(line_lower)
        inside     == IF entered /\ is_next_section(line) THEN FALSE ELSE entered
        question   == strip(re_sub_leading(line))
    IN  [in_question_section |-> inside,
         questions |->
            IF inside /\ strip(line) # <<>> /\ question # <<>>
                      /\ Len(question) > MinQuestionLen
            THEN Append(qs, question) ELSE qs]

\* one iteration of "for line in lines"
scan_line(in_section, qs, line) ==
    LET line_lower == strip(lower(line))
    IN  IF has_indicator(line_lower)
        THEN [in_question_section |-> TRUE, questions |-> qs]
        ELSE LET inside   == IF in_section /\ is_next_section(line)
                             THEN FALSE ELSE in_section
                 question == strip(re_sub_leading(line))
             IN  [in_question_section |-> inside,
                  questions |->
                     IF inside /\ strip(line) # <<>> /\ question # <<>>
                               /\ Len(question) > MinQuestionLen
                     THEN Append(qs, question) ELSE qs]

\* a faulty variant of fallback_questions: the first two entries swapped
fallback_questions_swapped ==
    << <<"A","r","e"," ","t","h","e","r","e"," ","a","n","y"," ","a","d","d","i","t","i","o","n","a","l"," ","s","k","i","l","l","s"," ","o","r"," ","c","e","r","t","i","f","i","c","a","t","i","o","n","s"," ","t","o"," ","h","i","g","h","l","i","g","h","t","?">>,
       <<"W","h","a","t"," ","s","p","e","c","i","f","i","c"," ","a","c","h","i","e","v","e","m","e","n","t","s"," ","o","r"," ","m","e","t","r","i","c","s"," ","c","a","n"," ","y","o","u"," ","p","r","o","v","i","d","e","?">>,
       <<"W","h","a","t"," ","i","s"," ","y","o","u","r"," ","t","a","r","g","e","t"," ","j","o","b"," ","r","o","l","e"," ","o","r"," ","i","n","d","u","s","t","r","y","?">>,
       <<"A","n","y"," ","a","d","d","i","t","i","o","n","a","l"," ","e","x","p","e","r","i","e","n","c","e","s"," ","o","r"," ","p","r","o","j","e","c","t","s"," ","t","o"," ","i","n","c","l","u","d","e","?">> >>

fallback_questions ==
    << <<"W","h","a","t"," ","s","p","e","c","i","f","i","c"," ","a","c","h","i","e","v","e","m","e","n","t","s"," ","o","r"," ","m","e","t","r","i","c","s"," ","c","a","n"," ","y","o","u"," ","p","r","o","v","i","d","e","?">>,
       <<"A","r","e"," ","t","h","e","r","e"," ","a","n","y"," ","a","d","d","i","t","i","o","n","a","l"," ","s","k","i","l","l","s"," ","o","r"," ","c","e","r","t","i","f","i","c","a","t","i","o","n","s"," ","t","o"," ","h","i","g","h","l","i","g","h","t","?">>,
       <<"W","h","a","t"," ","i","s"," ","y","o","u","r"," ","t","a","r","g","e","t"," ","j","o","b"," ","r","o","l","e"," ","o","r"," ","i","n","d","u","s","t","r","y","?">>,
       <<"A","n","y"," ","a","d","d","i","t","i","o","n","a","l"," ","e","x","p","e","r","i","e","n","c","e","s"," ","o","r"," ","p","r","o","j","e","c","t","s"," ","t","o"," ","i","n","c","l","u","d","e","?">> >>

QuestionLimit == 6

\* a faulty variant of limit_questions: the list is returned whole
limit_questions_none(qs) == qs

\* questions[:6]
limit_questions(qs) == take(qs, QuestionLimit)

(* The analysis texts the extractor is run on *)

Header       == <<"M","i","s","s","i","n","g"," ","I","n","f","o","r","m","a","t","i","o","n"," ","N","e","e","d","e","d",":">>
NumberedRole == <<"1","."," ","W","h","a","t"," ","w","a","s"," ","y","o","u","r"," ","r","o","l","e"," ","a","t"," ","C","o","m","p","a","n","y"," ","X","?">>
NumberedSale == <<"2","."," ","C","a","n"," ","y","o","u"," ","q","u","a","n","t","i","f","y"," ","y","o","u","r"," ","s","a","l","e","s"," ","r","e","s","u","l","t","s","?">>
DashedYear   == <<"-"," ","2","0","1","9"," ","g","a","p",":"," ","w","h","y"," ","w","a","s"," ","i","t","?">>
DottedShort  == <<"BULLET"," ","V","i","s","a"," ","t","y","p","e">>
DashedAsking == <<"-"," ","A","n","y"," ","q","u","e","s","t","i","o","n","s"," ","o","n"," ","J","a","v","a","?">>
NumberedSix  == <<"6","."," ","R","o","l","e",":"," ","w","h","a","t"," ","d","i","d"," ","y","o","u"," ","d","o","?">>
NextSection  == <<"I","n","d","u","s","t","r","y"," ","R","e","c","o","m","m","e","n","d","a","t","i","o","n","s",":">>
PlainLine    == <<"C","o","n","s","i","d","e","r"," ","e","m","p","h","a","s","i","z","i","n","g"," ","l","e","a","d","e","r","s","h","i","p",".">>
BlankLine    == <<>>

\* lines of any kind, for texts of up to MaxLines lines
LinePool ==
    {Header, NumberedRole, DashedAsking, NextSection, PlainLine, BlankLine}

\* list items, for texts of a header and three items
ListPool == {NumberedRole, DashedYear, DottedShort, DashedAsking, NumberedSix}

\* list items, for texts of a header and up to MaxQuestionLines items
QuestionPool == {NumberedRole, NumberedSale, DottedShort}

\* the end-to-end scenario of the specification
ScenarioLines == <<Header, NumberedRole, NumberedSale, NextSection, PlainLine>>

AnalysisTexts ==
    {join(ls, "\n") : ls \in SeqsOf(LinePool, 1, MaxLines)}
    \cup {join(<<Header>> \o ls, "\n") : ls \in SeqsOf(ListPool, 3, 3)}
    \cup {join(<<Header>> \o ls, "\n") : ls \in SeqsOf(QuestionPool, 1, MaxQuestionLines)}
    \cup {join(ScenarioLines, "\n")}

XInit ==
    /\ analysis_text \in AnalysisTexts
    /\ lines = <<>> /\ line_no = 0
    /\ in_question_section = FALSE /\ questions = <<>> /\ result = <<>>
    /\ xpc = "start"

\* lines 196-205: the statements before the loop
Begin ==
    /\ xpc = "start"
    /\ questions' = <<>>
    /\ lines' = split(analysis_text, "\n")
    /\ in_question_section' = FALSE
    /\ line_no' = 1
    /\ xpc' = "loop"
    /\ UNCHANGED <<analysis_text, result>>
    /\ UNCHANGED <<cvars, mvars>>

\* lines 206-224: the loop body, on the next line
ScanLine ==
    /\ xpc = "loop"
    /\ line_no <= Len(lines)
    /\ LET next == scan_line(in_question_section, questions, lines[line_no])
       IN  /\ in_question_section' = next.in_question_section
           /\ questions' = next.questions
    /\ line_no' = line_no + 1
    /\ UNCHANGED <<analysis_text, lines, result, xpc>>
    /\ UNCHANGED <<cvars, mvars>>

\* lines 226-235: the fallback and the return
Return ==
    /\ xpc = "loop"
    /\ line_no > Len(lines)
    /\ questions' = IF questions = <<>> THEN fallback_questions ELSE questions
    /\ result' = limit_questions(questions')
    /\ xpc' = "done"
    /\ UNCHANGED <<analysis_text, lines, line_no, in_question_section>>
    /\ UNCHANGED <<cvars, mvars>>

Init == XInit /\ CIdle /\ MIdle
Next == Begin \/ ScanLine \/ Return
Spec == Init /\ [][Next]_vars

----------------------------------------------------------------------------
(* main: one pass of the script over the uploaded files.  The framework     *)
(* runs the script again on every interaction; st.session_state persists    *)
(* from one pass to the next, everything else is rebuilt.                   *)

\* the uploaded files: a PDF that cannot be read, a DOCX whose paragraphs
\* hold only whitespace, and a PDF with text
CorruptPdf == [type |-> "application/pdf", readable |-> FALSE, text |-> <<>>]
BlankDocx  == [type |-> "docx", readable |-> TRUE, text |-> <<" ","\n"," ">>]
GoodPdf    == [type |-> "application/pdf", readable |-> TRUE, text |-> <<"a"," "," ","b">>]

FilePool == {CorruptPdf, BlankDocx, GoodPdf}

\* extract_text_from_pdf and extract_text_from_docx: the text, or the
\* error shown and "" when the library raises
extract_text(file) ==
    IF file.readable
    THEN [text |-> file.text, shown |-> <<>>]
    ELSE [text |-> <<>>,
          shown |-> IF file.type = "application/pdf"
                    THEN <<"Error reading PDF">> ELSE <<"Error reading DOCX">>]

\* lines 305-310
resume_text_of(file) == clean_text(extract_text(file).text)

\* create_docx_from_text: doc.save is not guarded, so a failure to
\* serialize leaves the function as an exception
create_docx_from_text(save_raises) ==
    IF save_raises
    THEN [raised |-> TRUE, bytes |-> <<>>]
    ELSE [raised |-> FALSE, bytes |-> <<"P", "K">>]

\* lines 374-434: the branch taken when the form was submitted.  has_answers
\* says whether any answer of the form is non-blank.  setup_gemini returns a
\* model or stops the script, so the branch for a missing model is not
\* taken; the Preview button cannot be pressed in the pass that submits the
\* form, so show_preview is never written.
enhance(in) ==
    IF ~in.has_answers
    THEN [shown |-> <<"Please provide at least one answer to improve your resume.">>,
          calls |-> 0, docx |-> NoDocx]
    ELSE IF in.llm_raises
    THEN [shown |-> <<"Enhancement failed">>, calls |-> 1, docx |-> NoDocx]
    ELSE LET made == create_docx_from_text(in.save_raises)
             docx == [called |-> TRUE, raised |-> made.raised, bytes |-> made.bytes]
         IN  IF made.raised
             THEN [shown |-> <<"Enhancement failed">>, calls |-> 1, docx |-> docx]
             ELSE IF made.bytes # <<>>
             THEN [shown |-> <<"Enhanced resume created successfully!">>,
                   calls |-> 1, docx |-> docx]
             ELSE [shown |-> <<"Failed to create DOCX. Please try again.">>,
                   calls |-> 1, docx |-> docx]

\* a faulty variant of process_file: the key is written before the call that may raise
process_file_store_first(i, file, session, in) ==
    LET extracted   == extract_text(file)
        resume_text == clean_text(extracted.text)
    IN  IF resume_text = <<>>
        THEN [shown |-> extracted.shown \o <<"Could not extract text from file">>,
              session |-> session, calls |-> 0, docx |-> NoDocx]
        ELSE
        LET analyze  == in.click = <<"analyze", i>>
            stored   == IF analyze THEN session \cup {i} ELSE session
            failed   == IF analyze /\ in.llm_raises THEN <<"Analysis failed">> ELSE <<>>
            enhanced == IF i \in stored /\ in.click = <<"submit", i>>
                        THEN enhance(in)
                        ELSE [shown |-> <<>>, calls |-> 0, docx |-> NoDocx]
        IN  [shown |-> extracted.shown \o failed \o enhanced.shown,
             session |-> stored,
             calls |-> (IF analyze THEN 1 ELSE 0) + enhanced.calls,
             docx |-> enhanced.docx]

\* lines 296-436: the body of "for idx, uploaded_file in enumerate(...)"
process_file(i, file, session, in) ==
    LET extracted   == extract_text(file)
        resume_text == clean_text(extracted.text)
    IN  IF resume_text = <<>>
        THEN [shown |-> extracted.shown \o <<"Could not extract text from file">>,
              session |-> session, calls |-> 0, docx |-> NoDocx]
        ELSE
        LET analyze  == in.click = <<"analyze", i>>
            stored   == IF analyze /\ ~in.llm_raises THEN session \cup {i} ELSE session
            failed   == IF analyze /\ in.llm_raises THEN <<"Analysis failed">> ELSE <<>>
            enhanced == IF i \in stored /\ in.click = <<"submit", i>>
                        THEN enhance(in)
                        ELSE [shown |-> <<>>, calls |-> 0, docx |-> NoDocx]
        IN  [shown |-> extracted.shown \o failed \o enhanced.shown,
             session |-> stored,
             calls |-> (IF analyze THEN 1 ELSE 0) + enhanced.calls,
             docx |-> enhanced.docx]

\* what the user can do to start a pass: nothing, the Analyze button of a
\* file whose text was extracted, or the form of a file that has an analysis
Clicks ==
    {NoClick}
    \cup {<<"analyze", i>> : i \in {j \in 1..Len(uploaded_files) :
                                     resume_text_of(uploaded_files[j]) # <<>>}}
    \cup {<<"submit", i>> : i \in {j \in 1..Len(uploaded_files) :
                                     /\ resume_text_of(uploaded_files[j]) # <<>>
                                     /\ j \in session_state}}

\* the click and what the collaborators do in the pass it starts
Inputs ==
    {in \in [click : Clicks, llm_raises : BOOLEAN, save_raises : BOOLEAN,
             has_answers : BOOLEAN] :
        /\ in.has_answers => in.click[1] = "submit"
        /\ in.llm_raises => (in.click[1] = "analyze" \/ in.has_answers)
        /\ in.save_raises => (in.has_answers /\ ~in.llm_raises)}

MInit ==
    /\ uploaded_files \in SeqsOf(FilePool, 0, MaxFiles)
    /\ session_state = {}
    /\ input = NoInput
    /\ idx = 0
    /\ shown = <<>>
    /\ llm_calls = <<>>
    /\ docx_made = NoDocx
    /\ mpc = "waiting"

\* lines 238-292: an interaction starts a pass of the script
Rerun ==
    /\ mpc \in {"waiting", "done"}
    /\ input' \in Inputs
    /\ idx' = 1
    /\ shown' = <<>>
    /\ llm_calls' = <<>>
    /\ docx_made' = NoDocx
    /\ mpc' = IF uploaded_files = <<>> THEN "done" ELSE "loop"
    /\ UNCHANGED <<uploaded_files, session_state>>
    /\ UNCHANGED <<xvars, cvars>>

\* lines 295-436: one iteration of the loop over the files
ProcessFile ==
    /\ mpc = "loop"
    /\ idx <= Len(uploaded_files)
    /\ LET out == process_file(idx, uploaded_files[idx], session_state, input)
       IN  /\ shown' = Append(shown, out.shown)
           /\ llm_calls' = Append(llm_calls, out.calls)
           /\ session_state' = out.session
           /\ docx_made' = IF out.docx.called THEN out.docx ELSE docx_made
    /\ idx' = idx + 1
    /\ UNCHANGED <<uploaded_files, input, mpc>>
    /\ UNCHANGED <<xvars, cvars>>

\* the loop is exhausted and the pass ends
EndPass ==
    /\ mpc = "loop"
    /\ idx > Len(uploaded_files)
    /\ mpc' = "done"
    /\ UNCHANGED <<uploaded_files, session_state, input, idx, shown, llm_calls, docx_made>>
    /\ UNCHANGED <<xvars, cvars>>

InitMain == MInit /\ XIdle /\ CIdle
NextMain == Rerun \/ ProcessFile \/ EndPass
SpecMain == InitMain /\ [][NextMain]_vars

----------------------------------------------------------------------------
(* Properties of main, checked under SpecMain *)

\* file i was reached in this pass
Reached(i) == i <= Len(shown)

Has(msgs, m) == \E k \in 1..Len(msgs) : msgs[k] = m

\* the analysis call of this pass is for file i and raises
AnalysisRaises(i) ==
    /\ input.click = <<"analyze", i>>
    /\ input.llm_raises

\* C6: when serializing the enhanced resume fails, create_docx_from_text
\* returns an empty byte result instead of raising, and main shows
\* "Failed to create DOCX" for the file.
C6_EmptyBytesOnFailure ==
    (docx_made.called /\ input.save_raises) =>
        /\ ~docx_made.raised
        /\ docx_made.bytes = <<>>
        /\ Has(shown[input.click[2]], "Failed to create DOCX. Please try again.")

\* the rewrite call of this pass is for file i and raises
RewriteRaises(i) ==
    /\ input.click = <<"submit", i>>
    /\ input.has_answers
    /\ input.llm_raises

\* C7: a file whose text comes out empty gets the error inline and no LLM
\* call; a file whose analysis or rewrite call raises gets the error inline
\* and exactly one call; the failing iteration writes nothing to the session
\* state and shows nothing for another file; and the pass ends only after
\* every file was reached.
C7_FailuresLocal ==
    /\ [](\A i \in 1..Len(shown) :
            /\ resume_text_of(uploaded_files[i]) = <<>>
                 => /\ Has(shown[i], "Could not extract text from file")
                    /\ llm_calls[i] = 0
            /\ AnalysisRaises(i)
                 => /\ Has(shown[i], "Analysis failed")
                    /\ llm_calls[i] = 1
            /\ RewriteRaises(i)
                 => /\ Has(shown[i], "Enhancement failed")
                    /\ llm_calls[i] = 1)
    /\ [](mpc = "done" => Len(shown) = Len(uploaded_files))
    /\ [][(/\ mpc = "loop" /\ idx' = idx + 1
           /\ \/ resume_text_of(uploaded_files[idx]) = <<>>
              \/ AnalysisRaises(idx)
              \/ RewriteRaises(idx))
          => /\ session_state' = session_state
             /\ SubSeq(shown', 1, Len(shown)) = shown
             /\ mpc' = "loop"]_vars

\* in a pass over three files the first came out empty, the analysis of the
\* second raised, and the pass went on to its end
C7_Witness ==
    /\ mpc = "done"
    /\ Len(uploaded_files) = 3
    /\ uploaded_files[1] = CorruptPdf
    /\ AnalysisRaises(2)
    /\ Has(shown[2], "Analysis failed")
    /\ Len(shown) = 3
    /\ 3 \in session_state

----------------------------------------------------------------------------
(* Properties of extract_questions_from_analysis, checked under Spec *)

\* the line, lower-cased, contains one of the five trigger phrases
HasTrigger(line) ==
    \E phrase \in { <<"m","i","s","s","i","n","g"," ","i","n","f","o","r","m","a","t","i","o","n">>, <<"i","n","f","o","r","m","a","t","i","o","n"," ","n","e","e","d","e","d">>, <<"q","u","e","s","t","i","o","n","s">>,
                    <<"a","d","d","i","t","i","o","n","a","l"," ","d","e","t","a","i","l","s">>, <<"c","l","a","r","i","f","i","c","a","t","i","o","n"," ","n","e","e","d","e","d">> } :
        contains(lower(line), phrase)

\* the length of the bullet or numbering that opens the line: "- ", "BULLET "
\* or a digit, a period and a space; 0 when the line opens with neither
MarkerLen(line) ==
    IF Len(line) >= 2 /\ line[1] \in {"-", "BULLET"} /\ line[2] = " " THEN 2
    ELSE IF Len(line) >= 3 /\ line[1] \in Digits /\ line[2] = "." /\ line[3] = " " THEN 3
    ELSE 0

WithoutMarker(line) == SubSeq(line, MarkerLen(line) + 1, Len(line))

\* the line without its longest prefix of "-", BULLET, digits, "." and
\* whitespace, and without trailing whitespace
WithoutLeadingRun(line) ==
    LET class == {"-", "BULLET", "."} \cup Digits \cup Whitespace
        rest  == {k \in 1..Len(line) : line[k] \notin class}
    IN  IF rest = {} THEN <<>>
        ELSE strip(SubSeq(line, CHOOSE k \in rest : \A m \in rest : k <= m, Len(line)))

\* the text is the header line followed by exactly three lines
HeaderAndThree == Len(lines) = 4 /\ lines[1] = Header

\* C1 as stated: for a "Missing Information Needed:" header followed by 3
\* bulleted or numbered lines, each over 10 characters long, the result is
\* exactly those 3 lines in order with only the bullet or numbering removed.
C1_ThreeBulletsReturned ==
    (/\ xpc = "done"
     /\ HeaderAndThree
     /\ \A k \in 2..4 : MarkerLen(lines[k]) > 0 /\ Len(lines[k]) > 10)
    => result = [k \in 1..3 |-> WithoutMarker(lines[k + 1])]

\* C1 as amended: for the header followed by 3 lines that each start with
\* "-", BULLET or a digit 1-5, contain no trigger phrase, and are over 10
\* characters long once the leading run of "-", BULLET, digits, "." and
\* whitespace is removed and the rest trimmed, the result is exactly those 3
\* remainders in order.
C1_ThreeListItemsReturned ==
    (/\ xpc = "done"
     /\ HeaderAndThree
     /\ \A k \in 2..4 :
            /\ lines[k] # <<>>
            /\ lines[k][1] \in {"-", "BULLET", "1", "2", "3", "4", "5"}
            /\ ~HasTrigger(lines[k])
            /\ Len(WithoutLeadingRun(lines[k])) > 10)
    => result = [k \in 1..3 |-> WithoutLeadingRun(lines[k + 1])]

\* a numbered and two dashed items after the header have been returned
C1_Witness ==
    /\ xpc = "done"
    /\ lines = <<Header, NumberedRole, DashedYear, NumberedRole>>
    /\ result = << <<"W","h","a","t"," ","w","a","s"," ","y","o","u","r"," ","r","o","l","e"," ","a","t"," ","C","o","m","p","a","n","y"," ","X","?">>,
                   <<"g","a","p",":"," ","w","h","y"," ","w","a","s"," ","i","t","?">>,
                   <<"W","h","a","t"," ","w","a","s"," ","y","o","u","r"," ","r","o","l","e"," ","a","t"," ","C","o","m","p","a","n","y"," ","X","?">> >>

\* the fallback list of the specification, section 6
DocumentedFallback ==
    << <<"W","h","a","t"," ","s","p","e","c","i","f","i","c"," ","a","c","h","i","e","v","e","m","e","n","t","s"," ","o","r"," ","m","e","t","r","i","c","s"," ","c","a","n"," ","y","o","u"," ","p","r","o","v","i","d","e","?">>,
       <<"A","r","e"," ","t","h","e","r","e"," ","a","n","y"," ","a","d","d","i","t","i","o","n","a","l"," ","s","k","i","l","l","s"," ","o","r"," ","c","e","r","t","i","f","i","c","a","t","i","o","n","s"," ","t","o"," ","h","i","g","h","l","i","g","h","t","?">>,
       <<"W","h","a","t"," ","i","s"," ","y","o","u","r"," ","t","a","r","g","e","t"," ","j","o","b"," ","r","o","l","e"," ","o","r"," ","i","n","d","u","s","t","r","y","?">>,
       <<"A","n","y"," ","a","d","d","i","t","i","o","n","a","l"," ","e","x","p","e","r","i","e","n","c","e","s"," ","o","r"," ","p","r","o","j","e","c","t","s"," ","t","o"," ","i","n","c","l","u","d","e","?">> >>

\* the step that ends the scan and returns
Returning == xpc = "loop" /\ xpc' = "done"

\* the step that scans one line
Scanning == xpc = "loop" /\ xpc' = "loop" /\ line_no' = line_no + 1

\* C2: the function returns the documented 4-item fallback list whenever the
\* scan collected no question, and so for every text none of whose lines
\* contains a trigger phrase.
C2_Fallback ==
    [][(/\ Returning
        /\ \/ questions = <<>>
           \/ \A k \in 1..Len(lines) : ~HasTrigger(lines[k]))
       => result' = DocumentedFallback]_vars

\* a text of two long lines without a trigger phrase got the fallback list
C2_Witness ==
    /\ xpc = "done"
    /\ lines = <<NumberedRole, PlainLine>>
    /\ result = DocumentedFallback

\* C3: the function returns at most 6 entries, and when n >= 1 questions
\* were collected the result is the first min(n, 6) of them in scan order.
C3_AtMostSix ==
    /\ [](Len(result) <= 6)
    /\ [][(Returning /\ Len(questions) >= 1)
          => /\ Len(result') = (IF Len(questions) < 6 THEN Len(questions) ELSE 6)
             /\ \A k \in 1..Len(result') : result'[k] = questions[k]]_vars

\* seven questions were collected and six returned
C3_Witness ==
    /\ xpc = "done"
    /\ Len(questions) = 7
    /\ Len(result) = 6
    /\ result[2] # result[1]

\* the line is not blank, starts with none of space, "-", BULLET and the
\* digits 1-5, contains no trigger phrase, and has a colon with fewer than 4
\* words before the first one
EndsSection(line) ==
    /\ \E k \in 1..Len(line) : line[k] \notin Whitespace
    /\ line[1] \notin {" ", "-", "BULLET", "1", "2", "3", "4", "5"}
    /\ ~HasTrigger(line)
    /\ \E c \in 1..Len(line) :
          /\ line[c] = ":"
          /\ \A k \in 1..(c - 1) : line[k] # ":"
          /\ Len(split_words(SubSeq(line, 1, c - 1))) < 4

\* C8: inside the section, a line that EndsSection moves the scanner outside
\* and is not emitted; outside the section no line is emitted and the
\* scanner stays outside until a line with a trigger phrase; so the
\* end-to-end scenario yields exactly its two numbered questions.
C8_SectionExit ==
    /\ [][(Scanning /\ in_question_section /\ EndsSection(lines[line_no]))
          => (~in_question_section' /\ questions' = questions)]_vars
    /\ [][(Scanning /\ ~in_question_section /\ ~HasTrigger(lines[line_no]))
          => (~in_question_section' /\ questions' = questions)]_vars
    /\ []((xpc = "done" /\ lines = ScenarioLines)
          => result = << <<"W","h","a","t"," ","w","a","s"," ","y","o","u","r"," ","r","o","l","e"," ","a","t"," ","C","o","m","p","a","n","y"," ","X","?">>,
                         <<"C","a","n"," ","y","o","u"," ","q","u","a","n","t","i","f","y"," ","y","o","u","r"," ","s","a","l","e","s"," ","r","e","s","u","l","t","s","?">> >>)

\* the scenario has been scanned to its end
C8_Witness ==
    /\ xpc = "done"
    /\ lines = ScenarioLines
    /\ ~in_question_section
    /\ Len(result) = 2

\* C9: a line that contains a trigger phrase leaves the scanner inside the
\* section and is not emitted, whatever the state before and also when the
\* line has the form that ends a section; the section can so be re-entered.
C9_TriggerFirst ==
    [][(Scanning /\ HasTrigger(lines[line_no]))
       => (in_question_section' /\ questions' = questions)]_vars

\* the section was left at the second line and entered again at the third,
\* a header of the form that ends a section, and the fourth line was emitted
C9_Witness ==
    /\ xpc = "done"
    /\ lines = <<Header, NextSection, Header, NumberedRole>>
    /\ in_question_section
    /\ result = << <<"W","h","a","t"," ","w","a","s"," ","y","o","u","r"," ","r","o","l","e"," ","a","t"," ","C","o","m","p","a","n","y"," ","X","?">> >>

----------------------------------------------------------------------------
(* Properties of clean_text, checked under SpecClean *)

IsNewline(c) == c = "\n"
IsVisible(c) == c \notin Whitespace
\* whitespace other than the space and the newline: tabs, carriage returns
IsOtherWhitespace(c) == c \in Whitespace \ {" ", "\n"}

\* the longest run of consecutive characters of t that satisfy Test
LongestRun(t, Test(_)) ==
    LET runs == {n \in 0..Len(t) :
                    \E i \in 1..(Len(t) - n + 1) : \A k \in i..(i + n - 1) : Test(t[k])}
    IN  CHOOSE n \in runs : \A m \in runs : m <= n

IsSpace(c) == c = " "

\* C4: the output of clean_text contains no run of three or more consecutive
\* newlines and no run of two or more consecutive spaces.
C4_NoLongRuns ==
    cpc # "input" =>
        /\ LongestRun(cleaned, IsNewline) <= 2
        /\ LongestRun(cleaned, IsSpace) <= 1

\* an input with three newlines and two spaces in a row between visible
\* characters has been normalized
C4_Witness ==
    /\ cpc = "cleaned"
    /\ text = <<"a","\n","\n","\n"," "," ","a">>
    /\ cleaned = <<"a","\n","\n"," ","a">>

\* C5: clean_text is idempotent: clean_text(clean_text(x)) = clean_text(x).
C5_Idempotent == cpc = "recleaned" => recleaned = cleaned

\* the second application has run on an output that differs from a non-empty input
C5_Witness ==
    /\ cpc = "recleaned"
    /\ cleaned # text
    /\ cleaned # <<>>
    /\ LongestRun(text, IsSpace) >= 2

\* position k of t lies between two visible characters
Interior(t, k) ==
    /\ \E a \in 1..(k - 1) : IsVisible(t[a])
    /\ \E b \in (k + 1)..Len(t) : IsVisible(t[b])

\* position k of t lies between two newlines that only whitespace separates
BetweenNewlines(t, k) ==
    \E i \in 1..(k - 1), j \in (k + 1)..Len(t) :
        /\ t[i] = "\n" /\ t[j] = "\n"
        /\ \A m \in i..j : t[m] \in Whitespace

\* the characters of t at the positions in P, in order
RECURSIVE PickFrom(_, _, _)
PickFrom(t, P, k) ==
    IF k > Len(t) THEN <<>>
    ELSE (IF k \in P THEN <<t[k]>> ELSE <<>>) \o PickFrom(t, P, k + 1)

\* C10 as stated: clean_text only removes or collapses newlines and spaces, so
\* every tab or other whitespace character in the interior of the input
\* appears unchanged and in the same relative order in the output.
C10_TabsUntouched ==
    cpc # "input" =>
        /\ SelectSeq(cleaned, IsVisible) = SelectSeq(text, IsVisible)
        /\ SelectSeq(cleaned, IsOtherWhitespace)
             = PickFrom(text, {k \in 1..Len(text) :
                                 IsOtherWhitespace(text[k]) /\ Interior(text, k)}, 1)

\* C10 as amended: the visible characters are kept, and the tabs and other
\* whitespace kept are those of the interior that do not lie between two
\* newlines separated only by whitespace; those are removed with the blank
\* lines they are part of.
C10_TabsOutsideBlankLines ==
    cpc # "input" =>
        /\ SelectSeq(cleaned, IsVisible) = SelectSeq(text, IsVisible)
        /\ SelectSeq(cleaned, IsOtherWhitespace)
             = PickFrom(text, {k \in 1..Len(text) :
                                 /\ IsOtherWhitespace(text[k])
                                 /\ Interior(text, k)
                                 /\ ~BetweenNewlines(text, k)}, 1)

\* one interior tab is kept, and one inside a blank line is removed
C10_Witness ==
    /\ cpc = "cleaned"
    /\ text = <<"a","\t","\n","\r","\n","a">>
    /\ cleaned = <<"a","\t","\n","\n","a">>

====
